---- MODULE Spec2Model ----
(***************************************************************************)
(* HomGar integration: the API client's login retry logic                  *)
(* (custom_components/homgar/api.py) and the data update coordinator's     *)
(* refresh cycle (custom_components/homgar/__init__.py).                   *)
(*                                                                         *)
(* Python lists are objects: the coordinator's attributes and the          *)
(* published snapshot hold references (ids) into two heaps, one of home    *)
(* lists and one of device lists, so that rebinding an attribute and       *)
(* mutating a list in place are different things in the model.             *)
(* Error texts are sequences of words; str.lower() acts word by word and   *)
(* the `in` test is containment of a run of words.                         *)
(* Times are whole seconds; the formatted wait of the rate-limit message   *)
(* is in tenths of a second (the "%.1f" of the message).                   *)
(***************************************************************************)
EXTENDS Integers, Sequences, FiniteSets, TLC

VARIABLES
    now,                  \* time.time(), seconds
    login_retry_count,    \* HomgarApiClient._login_retry_count
    last_login_time,      \* HomgarApiClient._last_login_time
    homes,                \* coordinator.homes: id of a home list
    devices,              \* coordinator.devices: id of a device list
    hheap,                \* home list objects
    dheap,                \* device list objects
    data,                 \* coordinator.data: the published snapshot
    last_update_success,  \* coordinator.last_update_success
    entry_state,          \* the config entry: "setup", "loaded", "retry"
    pc,                   \* position of the refresh cycle
    vendor,               \* the vendor account answering this cycle
    hi,                   \* index of the home being walked
    hubs,                 \* hubs of the home being walked
    ki,                   \* index of the hub being walked
    raised,               \* exception that left _update_data in the last cycle
    update_failed,        \* what _async_update_data raised in the last cycle
    login_called,         \* the last ensure_logged_in() reached the vendor login
    login_err,            \* what the vendor login raised in it, if anything
    fail_times,           \* history: times of the latest consecutive failed logins
    last_good,            \* history: contents of the snapshot at its publication
    entities,             \* the HomgarSensor objects given to async_add_entities
    sensors_setup,        \* the sensor platform's async_setup_entry has run
    flow,                 \* the setup wizard: its last call and what came of it
    diag,                 \* the diagnostics: two entries and their outputs
    calc                  \* the last call of a conversion helper and its result

vars == <<now, login_retry_count, last_login_time, homes, devices, hheap, dheap,
          data, last_update_success, entry_state, pc, vendor, hi, hubs, ki,
          raised, update_failed, login_called, login_err, fail_times, last_good,
          entities, sensors_setup, flow, diag, calc>>

\* what the refresh cycle never writes: the sensor platform, the setup wizard and
\* the diagnostics
aux == <<entities, sensors_setup, flow, diag, calc>>

----------------------------------------------------------------------------
(* Program constants *)

LOGIN_RETRY_TIMEOUT == 300
MAX_LOGIN_RETRIES == 3
MIN_BACKOFF_DELAY == 1
MAX_BACKOFF_DELAY == 60

(* Bounds of the model *)

StartTime == 1000
MaxTime == 1450

\* the largest attempt number given to the backoff helper
MaxAttempt == 8

\* raw temperatures run this many steps of 0.05 K below and above 0 degrees Celsius
MaxRawSteps == 60

TickSteps == {150}

\* random.uniform(0.1, 0.5), in thousandths
JitterPermille == {100, 250, 500}

----------------------------------------------------------------------------
(* Exceptions and error texts *)

Exc(type, text, wait) == [type |-> type, text |-> text, wait |-> wait]

NoExc == Exc("None", <<>>, 0)

HomgarApiException(text) == Exc("HomgarApiException", text, 0)

\* str.lower() on one word
LowerWord(w) ==
    CASE w = "Unauthorized" -> "unauthorized"
      [] w = "Forbidden" -> "forbidden"
      [] w = "Invalid" -> "invalid"
      [] w = "Network" -> "network"
      [] w = "Timeout" -> "timeout"
      [] OTHER -> w

Lower(s) == [i \in DOMAIN s |-> LowerWord(s[i])]

\* indicator in error_str
Contains(ind, s) ==
    \E i \in 0..(Len(s) - Len(ind)) : \A j \in 1..Len(ind) : s[i + j] = ind[j]

auth_indicators ==
    {<<"401">>, <<"403">>, <<"unauthorized">>, <<"forbidden">>, <<"invalid", "credentials">>}

connection_indicators ==
    {<<"timeout">>, <<"connection">>, <<"network">>, <<"unreachable">>}

is_authentication_error(error_str) ==
    \E ind \in auth_indicators : Contains(ind, error_str)

is_connection_error(error_str) ==
    \E ind \in connection_indicators : Contains(ind, error_str)

\* variant: the error text compared without lower()
ErrorStrNoLower(err) == err.text

\* error_str = str(err).lower()
ErrorStr(err) == Lower(err.text)

\* the texts the vendor library's errors carry
VendorTexts ==
    {<<"HTTP", "403">>, <<"Unauthorized">>, <<"Network", "unreachable">>,
     <<"401", "timeout">>, <<"boom">>}

\* what a vendor call can raise: the library's own exception or any other
VendorErrors ==
    {Exc(t, x, 0) : t \in {"HomgarApiException", "Exception"}, x \in VendorTexts}

\* what the data calls raise in the model: one error of each type
FetchErrors ==
    {Exc("HomgarApiException", <<"boom">>, 0), Exc("Exception", <<"Network", "unreachable">>, 0)}

----------------------------------------------------------------------------
(* Backoff *)

Min(a, b) == IF a < b THEN a ELSE b
Max(a, b) == IF a > b THEN a ELSE b

\* variant: the product returned without the floor
calculate_backoff_delay_no_floor(attempt, jitter) ==
    Min(MAX_BACKOFF_DELAY, 2 ^ attempt) * jitter

\* _calculate_backoff_delay with the jitter drawn, in milliseconds
calculate_backoff_delay(attempt, jitter) ==
    LET base_delay == Min(MAX_BACKOFF_DELAY, 2 ^ attempt)
    IN  Max(MIN_BACKOFF_DELAY * 1000, base_delay * jitter)

\* f"{backoff_delay:.1f}": milliseconds to tenths of a second, rounded
FormatTenths(ms) == (ms + 50) \div 100

TooManyFailures(count, jitter) ==
    Exc("HomgarApiException", <<"Too", "many", "login", "failures">>,
        FormatTenths(calculate_backoff_delay(count, jitter)))

\* a value that may be None
None == [some |-> FALSE, val |-> 0]
Some(v) == [some |-> TRUE, val |-> v]

\* no wizard call made, no diagnostics asked for
NoFlow == [called |-> FALSE]
NoDiag == [asked |-> FALSE]
NoCalc == [fn |-> "none", arg |-> None, jitter |-> 0, out |-> None]

----------------------------------------------------------------------------
(* The vendor account: homes, hubs and their embedded sub-devices *)

Sub(m, d) == [mid |-> m, did |-> d, kind |-> "sub", subdevices |-> <<>>]
Hub(m, d, subs) == [mid |-> m, did |-> d, kind |-> "hub", subdevices |-> subs]
Home(hid, is_str) == [hid |-> hid, is_str |-> is_str]

HIDs == {"A", "B"}

Hub1 == Hub(1, 0, <<Sub(1, 1), Sub(1, 2)>>)
Hub2 == Hub(2, 0, <<>>)
Hub3 == Hub(3, 0, <<Sub(3, 1)>>)

\* a hub object whose subdevices attribute is None
HubWithoutSubdevices(m, d) ==
    [mid |-> m, did |-> d, kind |-> "hub:subdevices=None", subdevices |-> <<>>]
Hub4 == HubWithoutSubdevices(4, 0)

Account(none, hs, a, b) ==
    [homes_none |-> none, homes |-> hs, hubsOf |-> [h \in HIDs |-> IF h = "A" THEN a ELSE b]]

NoAccount == Account(FALSE, <<>>, <<>>, <<>>)

Accounts ==
    { NoAccount,
      Account(TRUE, <<>>, <<>>, <<>>),
      Account(FALSE, <<Home("A", TRUE), Home("B", TRUE)>>, <<Hub1>>, <<>>),
      Account(FALSE, <<Home("A", TRUE), Home("B", TRUE)>>, <<Hub1, Hub2>>, <<Hub3>>),
      Account(FALSE, <<Home("", TRUE), Home("7", FALSE), Home("B", TRUE)>>, <<>>, <<Hub3>>),
      Account(FALSE, <<Home("A", TRUE), Home("B", TRUE)>>, <<Hub1>>, <<Hub1>>),
      Account(FALSE, <<Home("A", TRUE)>>, <<Hub4>>, <<>>) }

----------------------------------------------------------------------------
(* List objects *)

ObjIds == {1, 2, 3}

NoData == [set |-> FALSE, homes |-> 0, devices |-> 0]

\* an id no live reference holds: a newly created list
FreshId(roots) ==
    CHOOSE i \in ObjIds : i \notin roots /\ \A j \in ObjIds : j < i => j \in roots

\* lists no reference holds any more are gone
Collect(heap, roots) == [i \in ObjIds |-> IF i \in roots THEN heap[i] ELSE <<>>]

DataHomes(d) == IF d.set THEN {d.homes} ELSE {}
DataDevices(d) == IF d.set THEN {d.devices} ELSE {}

\* what a reader of a snapshot finds in it
Content(d) ==
    IF d.set THEN [set |-> TRUE, homes |-> hheap[d.homes], devices |-> dheap[d.devices]]
    ELSE [set |-> FALSE, homes |-> <<>>, devices |-> <<>>]

----------------------------------------------------------------------------
(* HomgarApiClient.ensure_logged_in *)

\* variant: the retry limit compared with > instead of >=
rate_limited_off_by_one(count, last, current_time) ==
    /\ count > MAX_LOGIN_RETRIES
    /\ current_time - last < LOGIN_RETRY_TIMEOUT

\* variant: the cooldown window never checked
rate_limited_forever(count, last, current_time) ==
    count >= MAX_LOGIN_RETRIES

\* variant: the end of the cooldown window still inside it
rate_limited_inclusive(count, last, current_time) ==
    /\ count >= MAX_LOGIN_RETRIES
    /\ current_time - last <= LOGIN_RETRY_TIMEOUT

\* the guard of the fail-fast branch
rate_limited(count, last, current_time) ==
    /\ count >= MAX_LOGIN_RETRIES
    /\ current_time - last < LOGIN_RETRY_TIMEOUT

\* variant: the count never reset after the cooldown
count_before_login_no_reset(count, last, current_time) == count

\* the retry count the login attempt starts from
count_before_login(count, last, current_time) ==
    IF count >= MAX_LOGIN_RETRIES /\ ~(current_time - last < LOGIN_RETRY_TIMEOUT)
    THEN 0 ELSE count

\* variant: the connection indicators looked at before the authentication ones
login_error_connection_first(err) ==
    IF err.type = "HomgarApiException"
    THEN IF is_connection_error(ErrorStr(err))
         THEN HomgarApiException(<<"Connection", "timeout">>)
         ELSE IF is_authentication_error(ErrorStr(err))
              THEN HomgarApiException(<<"Invalid", "credentials">>)
              ELSE err
    ELSE HomgarApiException(<<"Login", "failed:">> \o err.text)

\* the exception ensure_logged_in raises when the vendor login raised err
login_error(err) ==
    IF err.type = "HomgarApiException"
    THEN IF is_authentication_error(ErrorStr(err))
         THEN HomgarApiException(<<"Invalid", "credentials">>)
         ELSE IF is_connection_error(ErrorStr(err))
              THEN HomgarApiException(<<"Connection", "timeout">>)
              ELSE err
    ELSE HomgarApiException(<<"Login", "failed:">> \o err.text)

\* history: the latest consecutive failed logins, at most MAX_LOGIN_RETRIES of them
Remember(times, t) ==
    IF Len(times) < MAX_LOGIN_RETRIES THEN Append(times, t) ELSE Append(Tail(times), t)

----------------------------------------------------------------------------
(* HomgarDataUpdateCoordinator *)

\* variant: only "except HomgarApiException", any other exception gets through
UpdateFailedOnlyApiErrors(exc) ==
    IF exc.type = "HomgarApiException"
    THEN "Error communicating with API"
    ELSE exc.type

\* the except clauses of _async_update_data
UpdateFailed(exc) ==
    IF exc.type = "HomgarApiException"
    THEN "Error communicating with API"
    ELSE "Unexpected error"

\* variant: the exception is swallowed and the cycle reported as a success
FailCycleSilent(exc) ==
    /\ raised' = exc
    /\ update_failed' = "none"
    /\ last_update_success' = TRUE
    /\ entry_state' = IF entry_state = "setup" THEN "retry" ELSE entry_state
    /\ pc' = "idle"
    /\ vendor' = NoAccount
    /\ hi' = 0 /\ hubs' = <<>> /\ ki' = 0
    /\ UNCHANGED <<data, last_good>>

\* variant: a failed cycle drops the published snapshot
FailCycleDropsData(exc) ==
    /\ raised' = exc
    /\ update_failed' = UpdateFailed(exc)
    /\ last_update_success' = FALSE
    /\ entry_state' = IF entry_state = "setup" THEN "retry" ELSE entry_state
    /\ pc' = "idle"
    /\ vendor' = NoAccount
    /\ hi' = 0 /\ hubs' = <<>> /\ ki' = 0
    /\ data' = NoData
    /\ UNCHANGED last_good

\* variant: a first refresh aborts the setup only when it failed at the login
FailCycleAbortsAtLoginOnly(exc) ==
    /\ raised' = exc
    /\ update_failed' = UpdateFailed(exc)
    /\ last_update_success' = FALSE
    /\ entry_state' = IF entry_state = "setup" /\ pc = "login" THEN "retry" ELSE "loaded"
    /\ pc' = "idle"
    /\ vendor' = NoAccount
    /\ hi' = 0 /\ hubs' = <<>> /\ ki' = 0
    /\ UNCHANGED <<data, last_good>>

\* variant: a failed login check is ignored and the fetch goes on
FailCycleLoginIgnored(exc) ==
    /\ raised' = exc
    /\ update_failed' = IF pc = "login" THEN update_failed ELSE UpdateFailed(exc)
    /\ last_update_success' = IF pc = "login" THEN last_update_success ELSE FALSE
    /\ entry_state' = IF entry_state = "setup" /\ pc # "login" THEN "retry" ELSE entry_state
    /\ pc' = IF pc = "login" THEN "homes" ELSE "idle"
    /\ vendor' = NoAccount
    /\ hi' = 0 /\ hubs' = <<>> /\ ki' = 0
    /\ UNCHANGED <<data, last_good>>

\* an exception leaves _update_data: the cycle ends, the snapshot stays
FailCycle(exc) ==
    /\ raised' = exc
    /\ update_failed' = UpdateFailed(exc)
    /\ last_update_success' = FALSE
    /\ entry_state' = IF entry_state = "setup" THEN "retry" ELSE entry_state
    /\ pc' = "idle"
    /\ vendor' = NoAccount
    /\ hi' = 0 /\ hubs' = <<>> /\ ki' = 0
    /\ UNCHANGED <<data, last_good>>

Init ==
    /\ now = StartTime
    /\ login_retry_count = 0
    /\ last_login_time = 0
    /\ homes = 1
    /\ devices = 1
    /\ hheap = [i \in ObjIds |-> <<>>]
    /\ dheap = [i \in ObjIds |-> <<>>]
    /\ data = NoData
    /\ last_update_success = TRUE
    /\ entry_state = "setup"
    /\ pc = "idle"
    /\ vendor = NoAccount
    /\ hi = 0 /\ hubs = <<>> /\ ki = 0
    /\ raised = NoExc
    /\ update_failed = "none"
    /\ login_called = FALSE
    /\ login_err = NoExc
    /\ fail_times = <<>>
    /\ last_good = Content(NoData)
    /\ entities = <<>>
    /\ sensors_setup = FALSE
    /\ flow = NoFlow
    /\ diag = NoDiag
    /\ calc = NoCalc

\* async_config_entry_first_refresh, or the timer / a request once loaded
StartRefresh ==
    /\ pc = "idle"
    /\ entry_state \in {"setup", "loaded"}
    /\ pc' = "login"
    /\ UNCHANGED <<now, login_retry_count, last_login_time, homes, devices, hheap,
                   dheap, data, last_update_success, entry_state, vendor, hi, hubs,
                   ki, raised, update_failed, login_called, login_err, fail_times,
                   last_good>>
    /\ UNCHANGED aux

\* variant: a rejected call starts the cooldown window again
LoginRateLimitedRestartsWindow ==
    /\ pc = "login"
    /\ rate_limited(login_retry_count, last_login_time, now)
    /\ \E jitter \in JitterPermille : FailCycle(TooManyFailures(login_retry_count, jitter))
    /\ login_called' = FALSE
    /\ login_err' = NoExc
    /\ last_login_time' = now
    /\ UNCHANGED <<now, login_retry_count, homes, devices, hheap, dheap, fail_times>>
    /\ UNCHANGED aux

LoginRateLimited ==
    /\ pc = "login"
    /\ rate_limited(login_retry_count, last_login_time, now)
    /\ \E jitter \in JitterPermille : FailCycle(TooManyFailures(login_retry_count, jitter))
    /\ login_called' = FALSE
    /\ login_err' = NoExc
    /\ UNCHANGED <<now, login_retry_count, last_login_time, homes, devices, hheap,
                   dheap, fail_times>>
    /\ UNCHANGED aux

LoginSucceeds ==
    /\ pc = "login"
    /\ ~rate_limited(login_retry_count, last_login_time, now)
    /\ last_login_time' = now
    /\ login_retry_count' = 0
    /\ login_called' = TRUE
    /\ login_err' = NoExc
    /\ fail_times' = <<>>
    /\ pc' = "homes"
    /\ UNCHANGED <<now, homes, devices, hheap, dheap, data, last_update_success,
                   entry_state, vendor, hi, hubs, ki, raised, update_failed,
                   last_good>>
    /\ UNCHANGED aux

LoginFails ==
    /\ pc = "login"
    /\ ~rate_limited(login_retry_count, last_login_time, now)
    /\ \E err \in VendorErrors : FailCycle(login_error(err)) /\ login_err' = err
    /\ login_retry_count' = count_before_login(login_retry_count, last_login_time, now) + 1
    /\ last_login_time' = now
    /\ login_called' = TRUE
    /\ fail_times' = Remember(fail_times, now)
    /\ UNCHANGED <<now, homes, devices, hheap, dheap>>
    /\ UNCHANGED aux

EnsureLoggedIn == LoginRateLimited \/ LoginSucceeds \/ LoginFails

----------------------------------------------------------------------------
(* HomgarApiClient.get_homes / get_devices_for_hid / get_device_status *)

\* "except HomgarApiException: raise" and "except Exception: raise HomgarApiException(...)"
Reraise(prefix, err) ==
    IF err.type = "HomgarApiException" THEN err
    ELSE HomgarApiException(prefix \o err.text)

\* homes or []
get_homes(acct) == IF acct.homes_none THEN <<>> ELSE acct.homes

\* not hid or not isinstance(hid, str)
invalid_hid(home) == home.hid = "" \/ ~home.is_str

\* where the walk over self.homes stands when home i is next
Walk(homeList, i) == IF i > Len(homeList) THEN "done" ELSE "hubs"

\* variant: self.devices.clear(), the same list object emptied in place
NewDeviceListInPlace(dev, d) == dev

\* self.devices = []: a new list object
NewDeviceList(dev, d) == FreshId({dev} \cup DataDevices(d))

\* variant: the sub-devices put before their hub
AppendHubSubdevicesFirst(list, hub) == (list \o hub.subdevices) \o <<hub>>

\* self.devices.append(hub); self.devices.extend(hub.subdevices)
AppendHub(list, hub) == (list \o <<hub>>) \o hub.subdevices

\* extend() can walk hub.subdevices
Iterable(hub) == hub.kind # "hub:subdevices=None"

\* what extend(None) raises
NotIterable == Exc("TypeError", <<"NoneType", "object", "is", "not", "iterable">>, 0)

GetHomesOk ==
    /\ pc = "homes"
    /\ \E acct \in Accounts :
         LET newH == FreshId({homes} \cup DataHomes(data))
             newD == NewDeviceList(devices, data)
         IN  /\ vendor' = acct
             /\ homes' = newH
             /\ hheap' = Collect([hheap EXCEPT ![newH] = get_homes(acct)],
                                 {newH} \cup DataHomes(data))
             /\ devices' = newD
             /\ dheap' = Collect([dheap EXCEPT ![newD] = <<>>],
                                 {newD} \cup DataDevices(data))
             /\ hi' = 1
             /\ pc' = Walk(get_homes(acct), 1)
    /\ UNCHANGED <<now, login_retry_count, last_login_time, data, last_update_success,
                   entry_state, hubs, ki, raised, update_failed, login_called,
                   login_err, fail_times, last_good>>
    /\ UNCHANGED aux

GetHomesFails ==
    /\ pc = "homes"
    /\ \E err \in FetchErrors :
         FailCycle(Reraise(<<"Failed", "to", "retrieve", "homes:">>, err))
    /\ UNCHANGED <<now, login_retry_count, last_login_time, homes, devices, hheap,
                   dheap, login_called, login_err, fail_times>>
    /\ UNCHANGED aux

GetHomes == GetHomesOk \/ GetHomesFails

GetDevicesForHidOk ==
    /\ pc = "hubs"
    /\ LET home == hheap[homes][hi]
           found == IF invalid_hid(home) THEN <<>> ELSE vendor.hubsOf[home.hid]
       IN  IF found = <<>>
           THEN /\ hi' = hi + 1
                /\ pc' = Walk(hheap[homes], hi + 1)
                /\ UNCHANGED <<hubs, ki>>
           ELSE /\ hubs' = found
                /\ ki' = 1
                /\ pc' = "status"
                /\ UNCHANGED hi
    /\ UNCHANGED <<now, login_retry_count, last_login_time, homes, devices, hheap,
                   dheap, data, last_update_success, entry_state, vendor, raised,
                   update_failed, login_called, login_err, fail_times,
                   last_good>>
    /\ UNCHANGED aux

\* variant: the vendor is asked for the hubs of a home without a usable id too
GetDevicesForHidFailsOnAnyId ==
    /\ pc = "hubs"
    /\ \E err \in FetchErrors :
         FailCycle(Reraise(<<"Failed", "to", "retrieve", "devices:">>, err))
    /\ UNCHANGED <<now, login_retry_count, last_login_time, homes, devices, hheap,
                   dheap, login_called, login_err, fail_times>>
    /\ UNCHANGED aux

GetDevicesForHidFails ==
    /\ pc = "hubs"
    /\ ~invalid_hid(hheap[homes][hi])
    /\ \E err \in FetchErrors :
         FailCycle(Reraise(<<"Failed", "to", "retrieve", "devices:">>, err))
    /\ UNCHANGED <<now, login_retry_count, last_login_time, homes, devices, hheap,
                   dheap, login_called, login_err, fail_times>>
    /\ UNCHANGED aux

GetDevicesForHid == GetDevicesForHidOk \/ GetDevicesForHidFails

GetDeviceStatusOk ==
    /\ pc = "status"
    /\ Iterable(hubs[ki])
    /\ dheap' = [dheap EXCEPT ![devices] = AppendHub(@, hubs[ki])]
    /\ IF ki < Len(hubs)
       THEN /\ ki' = ki + 1
            /\ UNCHANGED <<hi, hubs, pc>>
       ELSE /\ ki' = 0
            /\ hubs' = <<>>
            /\ hi' = hi + 1
            /\ pc' = Walk(hheap[homes], hi + 1)
    /\ UNCHANGED <<now, login_retry_count, last_login_time, homes, devices, hheap,
                   data, last_update_success, entry_state, vendor, raised,
                   update_failed, login_called, login_err, fail_times,
                   last_good>>
    /\ UNCHANGED aux

GetDeviceStatusFails ==
    /\ pc = "status"
    /\ \E err \in FetchErrors :
         FailCycle(Reraise(<<"Failed", "to", "get", "status:">>, err))
    /\ UNCHANGED <<now, login_retry_count, last_login_time, homes, devices, hheap,
                   dheap, login_called, login_err, fail_times>>
    /\ UNCHANGED aux

\* the status call returned and the hub was appended, then extend() raised
GetDeviceStatusExtendFails ==
    /\ pc = "status"
    /\ ~Iterable(hubs[ki])
    /\ dheap' = [dheap EXCEPT ![devices] = Append(@, hubs[ki])]
    /\ FailCycle(NotIterable)
    /\ UNCHANGED <<now, login_retry_count, last_login_time, homes, devices, hheap,
                   login_called, login_err, fail_times>>
    /\ UNCHANGED aux

GetDeviceStatus ==
    GetDeviceStatusOk \/ GetDeviceStatusFails \/ GetDeviceStatusExtendFails

\* variant: an empty result does not replace a snapshot
PublishUnlessEmpty ==
    /\ pc = "done"
    /\ data' = IF data.set /\ hheap[homes] = <<>> THEN data
               ELSE [set |-> TRUE, homes |-> homes, devices |-> devices]
    /\ hheap' = Collect(hheap, {homes} \cup DataHomes(data))
    /\ dheap' = Collect(dheap, {devices} \cup DataDevices(data))
    /\ last_update_success' = TRUE
    /\ entry_state' = "loaded"
    /\ last_good' = [set |-> TRUE, homes |-> hheap[homes], devices |-> dheap[devices]]
    /\ pc' = "idle"
    /\ vendor' = NoAccount
    /\ hi' = 0
    /\ raised' = NoExc
    /\ update_failed' = "none"
    /\ UNCHANGED <<now, login_retry_count, last_login_time, homes, devices, hubs, ki,
                   login_called, login_err, fail_times>>
    /\ UNCHANGED aux

\* variant: the first snapshot is never replaced
PublishOnce ==
    /\ pc = "done"
    /\ data' = IF data.set THEN data
               ELSE [set |-> TRUE, homes |-> homes, devices |-> devices]
    /\ hheap' = Collect(hheap, {homes} \cup DataHomes(data))
    /\ dheap' = Collect(dheap, {devices} \cup DataDevices(data))
    /\ last_update_success' = TRUE
    /\ entry_state' = "loaded"
    /\ last_good' = [set |-> TRUE, homes |-> hheap[homes], devices |-> dheap[devices]]
    /\ pc' = "idle"
    /\ vendor' = NoAccount
    /\ hi' = 0
    /\ raised' = NoExc
    /\ update_failed' = "none"
    /\ UNCHANGED <<now, login_retry_count, last_login_time, homes, devices, hubs, ki,
                   login_called, login_err, fail_times>>
    /\ UNCHANGED aux

\* _update_data returned: {"homes": self.homes, "devices": self.devices} becomes
\* coordinator.data
Publish ==
    /\ pc = "done"
    /\ data' = [set |-> TRUE, homes |-> homes, devices |-> devices]
    /\ hheap' = Collect(hheap, {homes})
    /\ dheap' = Collect(dheap, {devices})
    /\ last_update_success' = TRUE
    /\ entry_state' = "loaded"
    /\ last_good' = [set |-> TRUE, homes |-> hheap[homes], devices |-> dheap[devices]]
    /\ pc' = "idle"
    /\ vendor' = NoAccount
    /\ hi' = 0
    /\ raised' = NoExc
    /\ update_failed' = "none"
    /\ UNCHANGED <<now, login_retry_count, last_login_time, homes, devices, hubs, ki,
                   login_called, login_err, fail_times>>
    /\ UNCHANGED aux

\* async_setup_entry runs again after a first refresh that failed: a new coordinator
SetupRetry ==
    /\ entry_state = "retry"
    /\ entry_state' = "setup"
    /\ login_retry_count' = 0
    /\ last_login_time' = 0
    /\ homes' = 1
    /\ devices' = 1
    /\ hheap' = [i \in ObjIds |-> <<>>]
    /\ dheap' = [i \in ObjIds |-> <<>>]
    /\ data' = NoData
    /\ last_update_success' = TRUE
    /\ raised' = NoExc
    /\ update_failed' = "none"
    /\ login_called' = FALSE
    /\ login_err' = NoExc
    /\ fail_times' = <<>>
    /\ UNCHANGED <<now, pc, vendor, hi, hubs, ki, last_good>>
    /\ UNCHANGED aux

Tick ==
    /\ \E d \in TickSteps : now + d <= MaxTime /\ now' = now + d
    /\ UNCHANGED <<login_retry_count, last_login_time, homes, devices, hheap, dheap,
                   data, last_update_success, entry_state, pc, vendor, hi, hubs, ki,
                   raised, update_failed, login_called, login_err,
                   fail_times, last_good>>
    /\ UNCHANGED aux

Next ==
    \/ StartRefresh
    \/ EnsureLoggedIn
    \/ GetHomes
    \/ GetDevicesForHid
    \/ GetDeviceStatus
    \/ Publish
    \/ SetupRetry
    \/ Tick

Spec == Init /\ [][Next]_vars

----------------------------------------------------------------------------
(* The sensor platform: sensor.py *)

\* isinstance(device, RainPointSoilMoistureSensor): the hub objects of the account
\* are of none of the four sensor classes
is_soil_moisture_sensor(dev) == dev.kind = "sub"

\* device.moist_percent_current of the account's device objects; the sub-device
\* of hub 3 has no reading
moist_percent_current(dev) ==
    IF dev.mid = 3 THEN None ELSE Some(30 + 10 * dev.mid + dev.did)

\* HomgarSensor.__init__: the entity keeps the device object it was made from
HomgarSensor(dev, key) == [device |-> dev, key |-> key]

\* f"{device_mid}_{device_did}_{description.key}"
unique_id(e) == <<e.device.mid, e.device.did, e.key>>

\* the value_fn given to the entity: lambda d: d.moist_percent_current
value_fn(key, dev) == moist_percent_current(dev)

create_soil_moisture_sensors(dev) ==
    IF moist_percent_current(dev) # None
    THEN <<HomgarSensor(dev, "soil_moisture")>>
    ELSE <<>>

\* the loop of async_setup_entry over coordinator.data["devices"]
RECURSIVE create_entities(_)
create_entities(devs) ==
    IF devs = <<>> THEN <<>>
    ELSE (IF is_soil_moisture_sensor(Head(devs))
          THEN create_soil_moisture_sensors(Head(devs))
          ELSE <<>>)
         \o create_entities(Tail(devs))

\* the loop of native_value: the first device with the entity's mid and did
RECURSIVE native_value_in(_, _)
native_value_in(e, devs) ==
    IF devs = <<>> THEN None
    ELSE IF Head(devs).mid = e.device.mid /\ Head(devs).did = e.device.did
         THEN value_fn(e.key, Head(devs))
         ELSE native_value_in(e, Tail(devs))

native_value(e) == native_value_in(e, Content(data).devices)

\* variant: an entity without a value is not available
available_unless_none(e) == last_update_success /\ native_value(e) # None

\* HomgarSensor.available
available(e) == last_update_success

\* async_forward_entry_setups at the end of async_setup_entry: the platform makes
\* its entities from the snapshot of that moment, once
SensorSetup ==
    /\ entry_state = "loaded"
    /\ ~sensors_setup
    /\ entities' = create_entities(Content(data).devices)
    /\ sensors_setup' = TRUE
    /\ UNCHANGED <<now, login_retry_count, last_login_time, homes, devices, hheap,
                   dheap, data, last_update_success, entry_state, pc, vendor, hi,
                   hubs, ki, raised, update_failed, login_called, login_err,
                   fail_times, last_good, flow, diag, calc>>

\* the entry with its sensor platform, every login succeeding
SensorNext ==
    \/ StartRefresh
    \/ LoginSucceeds
    \/ GetHomes
    \/ GetDevicesForHid
    \/ GetDeviceStatus
    \/ Publish
    \/ SetupRetry
    \/ SensorSetup

SpecSensor == Init /\ [][SensorNext]_vars

----------------------------------------------------------------------------
(* Strings of the setup wizard: sequences of characters *)

Letters == {"a", "b", "c", "i", "o", "p", "w", "x", "A"}
Digits == {"1", "2", "3", "4"}
Whitespace == {" "}

\* str.lower() on one character
LowerChar(c) == IF c = "A" THEN "a" ELSE c

\* str.lower()
str_lower(s) == [i \in DOMAIN s |-> LowerChar(s[i])]

RECURSIVE lstrip(_)
lstrip(s) == IF s # <<>> /\ Head(s) \in Whitespace THEN lstrip(Tail(s)) ELSE s

RECURSIVE rstrip(_)
rstrip(s) ==
    IF s # <<>> /\ s[Len(s)] \in Whitespace THEN rstrip(SubSeq(s, 1, Len(s) - 1)) ELSE s

\* str.strip()
strip(s) == rstrip(lstrip(s))

\* str.isdigit()
isdigit(s) == s # <<>> /\ \A i \in DOMAIN s : s[i] \in Digits

DEFAULT_AREA_CODE == <<"3", "1">>
MAX_AREA_CODE_LENGTH == 3

\* EMAIL_REGEX.match: ^[a-zA-Z0-9._%+-]+@[a-zA-Z0-9.-]+\.[a-zA-Z]{2,}$
EMAIL_REGEX_match(s) ==
    \E a, k \in DOMAIN s :
        /\ s[a] = "@"
        /\ a > 1
        /\ \A i \in 1..(a - 1) : s[i] \in Letters \cup Digits \cup {".", "_", "%", "+", "-"}
        /\ k > a + 1
        /\ s[k] = "."
        /\ \A i \in (a + 1)..(k - 1) : s[i] \in Letters \cup Digits \cup {".", "-"}
        /\ Len(s) - k >= 2
        /\ \A i \in (k + 1)..Len(s) : s[i] \in Letters

----------------------------------------------------------------------------
(* The setup wizard: config_flow.py *)

UserInput(e, p, a) == [given |-> TRUE, email |-> e, password |-> p, area_code |-> a]

\* user_input is None: the form is opened
NoInput == [given |-> FALSE, email |-> <<>>, password |-> <<>>, area_code |-> <<>>]

Emails ==
    { <<"a", "@", "b", ".", "i", "o">>,
      <<" ", "A", "@", "b", ".", "i", "o", " ">>,
      <<"a", "@", "b">> }

Passwords == { <<"p", "w", "1">>, <<"p", "w">> }

AreaCodes == { DEFAULT_AREA_CODE, <<"3", "x">> }

UserInputs == {UserInput(e, p, a) : e \in Emails, p \in Passwords, a \in AreaCodes}

\* _validate_input_format: the errors dict as a set of <<field, error>>
validate_input_format(d) ==
    LET email == strip(d.email)
        area_code == strip(d.area_code)
    IN  (IF email = <<>> THEN {<<"email", "email_required">>}
         ELSE IF ~EMAIL_REGEX_match(email) THEN {<<"email", "invalid_email">>}
         ELSE {})
        \cup
        (IF d.password = <<>> THEN {<<"password", "password_required">>}
         ELSE IF Len(d.password) < 3 THEN {<<"password", "password_too_short">>}
         ELSE {})
        \cup
        (IF area_code = <<>> THEN {}
         ELSE IF ~isdigit(area_code) THEN {<<"area_code", "area_code_not_numeric">>}
         ELSE IF Len(area_code) > MAX_AREA_CODE_LENGTH
              THEN {<<"area_code", "area_code_too_long">>}
         ELSE {})

\* HomgarApiClient.__init__: a client object of its own
HomgarApiClient == [count |-> 0, last |-> 0]

\* ensure_logged_in on the client c when the vendor login ends with the outcome login
ensure_logged_in(c, login, t, jitter) ==
    IF rate_limited(c.count, c.last, t)
    THEN [client |-> c, raised |-> TooManyFailures(c.count, jitter)]
    ELSE IF login = NoExc
         THEN [client |-> [count |-> 0, last |-> t], raised |-> NoExc]
         ELSE [client |-> [count |-> count_before_login(c.count, c.last, t) + 1, last |-> t],
               raised |-> login_error(login)]

\* how the vendor answers the wizard's calls: the login, then the homes list
Answer(login, homes_err, acct) == [login |-> login, homes_err |-> homes_err, acct |-> acct]

WizardVendors ==
    {Answer(l, NoExc, NoAccount) :
        l \in {HomgarApiException(<<"HTTP", "403">>),
               Exc("Exception", <<"401", "timeout">>, 0),
               HomgarApiException(<<"Network", "unreachable">>),
               HomgarApiException(<<"unknown", "zone">>)}}
    \cup {Answer(NoExc, e, NoAccount) : e \in FetchErrors}
    \cup {Answer(NoExc, NoExc, a) :
            a \in {NoAccount, Account(TRUE, <<>>, <<>>, <<>>),
                   Account(FALSE, <<Home("A", TRUE)>>, <<Hub1>>, <<>>)}}

\* the except clause of _validate_api_connection
validate_error(err) ==
    IF Contains(<<"credentials">>, ErrorStr(err)) \/ Contains(<<"401">>, ErrorStr(err))
    THEN "InvalidAuth"
    ELSE IF Contains(<<"area">>, ErrorStr(err)) \/ Contains(<<"zone">>, ErrorStr(err))
         THEN "InvalidAreaCode"
         ELSE "CannotConnect"

\* f"HomGar ({clean_data[CONF_EMAIL]})"
Title(email) == <<"H", "o", "m", "G", "a", "r", " ", "(">> \o email \o <<")">>

\* _validate_api_connection(self, data): what it returns or raises, and the client
\* object it made
validate_api_connection(d, v, t, jitter) ==
    LET email == str_lower(strip(d.email))
        login == ensure_logged_in(HomgarApiClient, v.login, t, jitter)
        err ==
            IF login.raised # NoExc THEN login.raised
            ELSE IF v.homes_err # NoExc
                 THEN Reraise(<<"Failed", "to", "retrieve", "homes:">>, v.homes_err)
            ELSE IF get_homes(v.acct) = <<>>
                 THEN Exc("InvalidAreaCode",
                          <<"No", "homes", "found", "for", "this", "area", "code">>, 0)
            ELSE NoExc
    IN  IF err = NoExc
        THEN [kind |-> "return", title |-> Title(email), client |-> login.client]
        ELSE [kind |-> validate_error(err), title |-> <<>>, client |-> login.client]

\* the functions defined in the body of class ConfigFlow
ConfigFlowMethods == {"async_step_user", "_validate_input_format"}

show_form(errors, c) == [type |-> "form", errors |-> errors, title |-> <<>>, client |-> c]

\* ConfigFlow.async_step_user; no entry with this e-mail is configured yet
async_step_user(d, v, t, jitter) ==
    IF ~d.given THEN show_form({}, HomgarApiClient)
    ELSE IF validate_input_format(d) # {}
         THEN show_form(validate_input_format(d), HomgarApiClient)
    ELSE IF "_validate_api_connection" \notin ConfigFlowMethods
         \* AttributeError, caught by "except Exception"
         THEN show_form({<<"base", "unknown">>}, HomgarApiClient)
    ELSE LET r == validate_api_connection(d, v, t, jitter)
         IN  CASE r.kind = "CannotConnect" -> show_form({<<"base", "cannot_connect">>}, r.client)
               [] r.kind = "InvalidAuth" -> show_form({<<"base", "invalid_auth">>}, r.client)
               [] r.kind = "InvalidAreaCode" ->
                      show_form({<<"area_code", "invalid_area_code">>}, r.client)
               [] OTHER ->
                      [type |-> "create_entry", errors |-> {}, title |-> r.title,
                       client |-> r.client]

\* variant: the wizard logs in through the coordinator's client object
api_shared_with_wizard(own, local) == local

\* the coordinator's self.api after a wizard call: the wizard's api_client is
\* another object
api_after_wizard(own, local) == own

WizardCall(fn, d, v, result) ==
    /\ flow' = [called |-> TRUE, fn |-> fn, data |-> d, vendor |-> v, result |-> result]
    /\ LET api == api_after_wizard([count |-> login_retry_count, last |-> last_login_time],
                                   result.client)
       IN  /\ login_retry_count' = api.count
           /\ last_login_time' = api.last
    /\ UNCHANGED <<now, homes, devices, hheap, dheap, data, last_update_success,
                   entry_state, pc, vendor, hi, hubs, ki, raised, update_failed,
                   login_called, login_err, fail_times, last_good, entities,
                   sensors_setup, diag, calc>>

\* the wizard is used before the entry's coordinator makes its first refresh
BeforeFirstRefresh == entry_state = "setup" /\ pc = "idle"

\* the module-level function called with some flow object and data
ValidateApiConnection ==
    /\ BeforeFirstRefresh
    /\ \E d \in UserInputs, v \in WizardVendors, jitter \in JitterPermille :
          WizardCall("_validate_api_connection", d, v,
                     validate_api_connection(d, v, now, jitter))

StepUser ==
    /\ BeforeFirstRefresh
    /\ \E d \in UserInputs \cup {NoInput}, v \in WizardVendors, jitter \in JitterPermille :
          WizardCall("async_step_user", d, v, async_step_user(d, v, now, jitter))

\* the wizard next to the coordinator's first login
WizardNext ==
    \/ ValidateApiConnection
    \/ StepUser
    \/ StartRefresh
    \/ LoginSucceeds
    \/ LoginFails
    \/ SetupRetry

SpecWizard == Init /\ [][WizardNext]_vars

----------------------------------------------------------------------------
(* Diagnostics: diagnostics.py *)

\* SCAN_INTERVAL = timedelta(minutes=5), as total_seconds()
SCAN_INTERVAL == 300

\* ConfigFlow.VERSION
VERSION == 1

\* async_create_entry(title=info["title"], data=user_input), the title being the
\* one _validate_api_connection makes from the e-mail
ConfigEntry(d) ==
    [title |-> Title(str_lower(strip(d.email))), version |-> VERSION, data |-> d]

\* one configuration and those that differ from it in the e-mail, the password or
\* the area code only
BaseInput == UserInput(<<"a", "@", "b", ".", "i", "o">>, <<"p", "w", "1">>, DEFAULT_AREA_CODE)

OtherInputs ==
    { UserInput(<<"c", "@", "b", ".", "i", "o">>, BaseInput.password, BaseInput.area_code),
      UserInput(<<" ", "A", "@", "b", ".", "i", "o", " ">>, BaseInput.password,
                BaseInput.area_code),
      UserInput(BaseInput.email, <<"p", "w", "x">>, BaseInput.area_code),
      UserInput(BaseInput.email, BaseInput.password, <<"1">>) }

\* the device_info dict: identity, type and the soil moisture where the device has one
device_info(dev) ==
    [mid |-> dev.mid, did |-> dev.did, type |-> dev.kind,
     soil_moisture |-> IF is_soil_moisture_sensor(dev) THEN moist_percent_current(dev)
                       ELSE None]

\* async_get_config_entry_diagnostics
diagnostics(entry, snapshot, success) ==
    [entry |-> [title |-> entry.title, version |-> entry.version],
     coordinator |-> [last_update_success |-> success,
                      update_interval |-> SCAN_INTERVAL,
                      homes_count |-> Len(snapshot.homes),
                      devices_count |-> Len(snapshot.devices)],
     devices |-> [i \in DOMAIN snapshot.devices |-> device_info(snapshot.devices[i])]]

\* the diagnostics of a loaded entry, asked for under two configurations
AskDiagnostics ==
    /\ entry_state = "loaded"
    /\ \E other \in OtherInputs :
         diag' = [asked |-> TRUE,
                  a |-> BaseInput,
                  b |-> other,
                  out_a |-> diagnostics(ConfigEntry(BaseInput), Content(data),
                                        last_update_success),
                  out_b |-> diagnostics(ConfigEntry(other), Content(data),
                                        last_update_success)]
    /\ UNCHANGED <<now, login_retry_count, last_login_time, homes, devices, hheap,
                   dheap, data, last_update_success, entry_state, pc, vendor, hi,
                   hubs, ki, raised, update_failed, login_called, login_err,
                   fail_times, last_good, entities, sensors_setup, flow,
                   calc>>

\* a loaded entry, its refresh cycles and its diagnostics
DiagNext ==
    \/ StartRefresh
    \/ LoginSucceeds
    \/ GetHomesOk
    \/ GetDevicesForHidOk
    \/ GetDeviceStatusOk
    \/ GetDeviceStatusFails
    \/ Publish
    \/ SetupRetry
    \/ AskDiagnostics

SpecDiag == Init /\ [][DiagNext]_vars

----------------------------------------------------------------------------
(* The conversion helpers: temperature and backoff *)

\* 273.15 K in millikelvin
ZeroCelsius == 273150

\* round(x, n) where x is value / unit: the nearest multiple; the tie, which the
\* float arithmetic decides, may go either way
RoundTo(value, unit) ==
    LET q == value \div unit
        r == value % unit
    IN  IF 2 * r < unit THEN {q}
        ELSE IF 2 * r > unit THEN {q + 1}
        ELSE {q, q + 1}

\* variant: the decimals cut off
sensor_temperature_truncated(raw) ==
    IF ~raw.some \/ raw.val = 0 THEN {None}
    ELSE {Some((raw.val - ZeroCelsius) \div 100)}

\* lambda d: round((d.temp_mk_current * 1e-3 - 273.15), 1) if d.temp_mk_current
\* else None, in tenths of a degree
sensor_temperature(raw) ==
    IF ~raw.some \/ raw.val = 0 THEN {None}
    ELSE {Some(v) : v \in RoundTo(raw.val - ZeroCelsius, 100)}

\* round((device.temp_mk_current * 1e-3 - 273.15), 2) if the value is not None, in
\* hundredths of a degree
diagnostics_temperature(raw) ==
    IF ~raw.some THEN {None}
    ELSE {Some(v) : v \in RoundTo(raw.val - ZeroCelsius, 10)}

\* temp_mk_current: None, 0, and values around 0 and 21 degrees Celsius
RawTemperatures ==
    {None, Some(0), Some(294150), Some(295150)}
    \cup {Some(ZeroCelsius + 50 * k) : k \in (0 - MaxRawSteps)..MaxRawSteps}
    \cup {Some(ZeroCelsius + 7 * k) : k \in 1..MaxRawSteps}

\* random.uniform(0.1, 0.5), in thousandths
BackoffJitters == {100 + 50 * k : k \in 0..8}

Called(fn, arg, jitter, out) == [fn |-> fn, arg |-> arg, jitter |-> jitter, out |-> out]

CalcUnchanged ==
    UNCHANGED <<now, login_retry_count, last_login_time, homes, devices, hheap,
                dheap, data, last_update_success, entry_state, pc, vendor, hi,
                hubs, ki, raised, update_failed, login_called, login_err,
                fail_times, last_good, entities, sensors_setup, flow, diag>>

\* the value_fn of a temperature sensor applied to a device
SensorTemperature ==
    /\ \E raw \in RawTemperatures : \E out \in sensor_temperature(raw) :
          calc' = Called("sensor_temperature", raw, 0, out)
    /\ CalcUnchanged

\* the temperature of a device in the diagnostics
DiagnosticsTemperature ==
    /\ \E raw \in RawTemperatures : \E out \in diagnostics_temperature(raw) :
          calc' = Called("diagnostics_temperature", raw, 0, out)
    /\ CalcUnchanged

\* _calculate_backoff_delay(attempt)
CalculateBackoffDelay ==
    /\ \E attempt \in 0..MaxAttempt, jitter \in BackoffJitters :
          calc' = Called("calculate_backoff_delay", Some(attempt), jitter,
                         Some(calculate_backoff_delay(attempt, jitter)))
    /\ CalcUnchanged

CalcNext ==
    \/ SensorTemperature
    \/ DiagnosticsTemperature
    \/ CalculateBackoffDelay

SpecCalc == Init /\ [][CalcNext]_vars

----------------------------------------------------------------------------
(* Properties *)

InvalidCredentials == <<"Invalid", "credentials">>
TooMany == <<"Too", "many", "login", "failures">>

\* a step that is a whole ensure_logged_in() call
LoginCall == pc = "login" /\ pc' # "login"

\* the step ends the refresh cycle as failed
CycleFails == pc # "idle" /\ pc' = "idle" /\ ~last_update_success'

\* MAX_LOGIN_RETRIES consecutive logins have failed on this client, the last one at
\* LastFailure
ThreeFailures == Len(fail_times) = MAX_LOGIN_RETRIES
LastFailure == fail_times[Len(fail_times)]

\* C1 as stated: after 3 consecutive failed logins, every ensure_logged_in() made
\* less than 300 s after the last failed login raises the too-many-failures error
\* without calling the vendor login.
C1_AsStated ==
    [][(LoginCall /\ ThreeFailures /\ now - LastFailure < LOGIN_RETRY_TIMEOUT)
          => (raised'.text = TooMany /\ ~login_called' /\ CycleFails)]_vars

\* C1 amended: after 3 consecutive failed logins that all fall within one cooldown
\* window (less than 300 s from the first to the third), every ensure_logged_in()
\* made less than 300 s after the third raises the too-many-failures error without
\* calling the vendor login.
C1_RateLimitedWithinWindow ==
    [][(/\ LoginCall
        /\ ThreeFailures
        /\ fail_times[MAX_LOGIN_RETRIES] - fail_times[1] < LOGIN_RETRY_TIMEOUT
        /\ now - LastFailure < LOGIN_RETRY_TIMEOUT)
          => (raised'.text = TooMany /\ ~login_called' /\ CycleFails)]_vars

C1_Witness ==
    /\ pc = "idle"
    /\ raised.text = TooMany
    /\ ~login_called
    /\ ThreeFailures
    /\ fail_times[MAX_LOGIN_RETRIES] - fail_times[1] < LOGIN_RETRY_TIMEOUT
    /\ now - LastFailure < LOGIN_RETRY_TIMEOUT
    /\ now > LastFailure

\* C2 as stated: a hub whose status fetch fails does not make the refresh cycle fail.
C2_StatusFailureTolerated ==
    [][pc = "status" => ~CycleFails]_vars

\* C3: when the homes-list call fails the cycle ends as failed, an update failure is
\* raised, last_update_success is false and the published snapshot has the homes
\* and devices it had before.
C3_HomesFailureKeepsSnapshot ==
    [][(pc = "homes" /\ pc' = "idle")
          => (/\ update_failed' # "none"
              /\ ~last_update_success'
              /\ data' = data
              /\ Content(data)' = Content(data))]_vars

C3_Witness ==
    /\ pc = "idle"
    /\ Len(raised.text) > 4
    /\ SubSeq(raised.text, 1, 4) = <<"Failed", "to", "retrieve", "homes:">>
    /\ update_failed # "none"
    /\ ~last_update_success
    /\ data.set
    /\ Len(Content(data).devices) > 0

\* C4: once a snapshot has been published the published snapshot is never null
\* again, and after a failed cycle it is the snapshot the latest successful cycle
\* published.
C4_SnapshotRetained ==
    /\ last_good.set => data.set
    /\ (pc = "idle" /\ update_failed # "none" /\ last_good.set)
          => Content(data) = last_good

C4_Witness ==
    /\ pc = "idle"
    /\ update_failed # "none"
    /\ last_good.set
    /\ Len(last_good.devices) > 0
    /\ dheap[devices] # last_good.devices
    /\ hheap[homes] # last_good.homes

\* C5: while a refresh cycle runs, the lists of the published snapshot do not
\* change: a reader finds the previous snapshot whole until the step that publishes
\* the new one, which is whole as well.
C5_PublishedListsImmutable ==
    [][data.set =>
          IF data' = data
          THEN Content(data)' = Content(data)
          ELSE /\ pc = "done"
               /\ Content(data)' =
                     [set |-> TRUE, homes |-> hheap[homes], devices |-> dheap[devices]]]_vars

C5_Witness ==
    /\ pc = "status"
    /\ data.set
    /\ Len(dheap[data.devices]) > 0
    /\ Len(dheap[devices]) > 0
    /\ dheap[devices] # dheap[data.devices]
    /\ Content(data) = last_good

\* C6 as stated: once ensure_logged_in() has failed with "Invalid credentials", a
\* later refresh cycle does not call the vendor login again.
C6_AuthFailureTerminal ==
    [][(LoginCall /\ raised.text = InvalidCredentials) => ~login_called']_vars

C8_HubListFailureTolerated ==
    [][pc = "hubs" => ~CycleFails]_vars

\* C9: when failureCount is 3 and 300 s or more have passed since the last failed
\* login, the next ensure_logged_in() calls the vendor login, counting from 0 again:
\* failureCount is 0 after it if the login succeeded and 1 if it failed.
C9_RetryAfterCooldown ==
    [][(/\ LoginCall
        /\ login_retry_count = MAX_LOGIN_RETRIES
        /\ fail_times # <<>>
        /\ now - LastFailure >= LOGIN_RETRY_TIMEOUT)
          => (/\ login_called'
              /\ login_retry_count' = (IF pc' = "homes" THEN 0 ELSE 1))]_vars

C9_Witness ==
    /\ login_called
    /\ login_retry_count = 1
    /\ ThreeFailures
    /\ fail_times[3] - fail_times[2] >= LOGIN_RETRY_TIMEOUT
    /\ fail_times[2] = fail_times[1]

\* C10 as stated: the wait carried by the too-many-failures error is the time left
\* in the cooldown window, 300 s minus the time since the last failed login
\* (in tenths of a second).
C10_WaitIsRemainingCooldown ==
    [][(LoginCall /\ raised'.text = TooMany /\ fail_times # <<>>)
          => raised'.wait = 10 * (LOGIN_RETRY_TIMEOUT - (now - LastFailure))]_vars

----------------------------------------------------------------------------
(* Properties of the snapshot and of the setup *)

\* a hub followed by its sub-devices, for each hub in order
RECURSIVE FlattenHubs(_)
FlattenHubs(hs) ==
    IF hs = <<>> THEN <<>>
    ELSE (<<Head(hs)>> \o Head(hs).subdevices) \o FlattenHubs(Tail(hs))

\* the hubs of each home in order; a home without a usable id has none
RECURSIVE ExpectedDevices(_, _)
ExpectedDevices(acct, hs) ==
    IF hs = <<>> THEN <<>>
    ELSE (IF Head(hs).hid \in HIDs /\ Head(hs).is_str
          THEN FlattenHubs(acct.hubsOf[Head(hs).hid]) ELSE <<>>)
         \o ExpectedDevices(acct, Tail(hs))

Identity(dev) == <<dev.mid, dev.did>>

\* C11 as stated: no two devices of a published snapshot share their (mid, did).
C11_UniqueIdentities ==
    data.set =>
        \A i, j \in DOMAIN Content(data).devices :
            i # j => Identity(Content(data).devices[i]) # Identity(Content(data).devices[j])

\* C12: a cycle in which every call succeeded publishes the homes the vendor
\* returned and, for each home in order and each of its hubs in order, the hub
\* followed by its sub-devices.
C12_SnapshotIsFlattenedAccount ==
    [][(pc = "done" /\ pc' = "idle")
          => (/\ data'.set
              /\ Content(data)'.homes = vendor.homes
              /\ Content(data)'.devices = ExpectedDevices(vendor, vendor.homes))]_vars

\* 2 homes, the first with 1 hub holding 2 sub-devices, the second without hubs:
\* 2 homes and 3 devices
C12_Witness ==
    /\ pc = "idle"
    /\ data.set
    /\ last_update_success
    /\ Content(data).homes = <<Home("A", TRUE), Home("B", TRUE)>>
    /\ Content(data).devices = <<Hub1, Sub(1, 1), Sub(1, 2)>>
    /\ Len(Content(data).devices) = 3

C17_EveryErrorIsUpdateFailed ==
    [][CycleFails
          => (/\ update_failed' \in {"Error communicating with API", "Unexpected error"}
              /\ raised' # NoExc
              /\ pc' = "idle"
              /\ entry_state' \in {"loaded", "retry"})]_vars

C17_Witness ==
    /\ pc = "idle"
    /\ raised = NotIterable
    /\ update_failed = "Unexpected error"
    /\ entry_state = "loaded"

----------------------------------------------------------------------------
(* Properties of the sensor entities *)

\* the entity's device is not in the current snapshot
Absent(e) ==
    \A i \in DOMAIN Content(data).devices :
        Identity(Content(data).devices[i]) # Identity(e.device)

\* C15 as stated: every entity reports the value of its device, the one it had when
\* the device was last in a snapshot, also while the device is absent; never None.
C15_AbsentDeviceKeepsValue ==
    \A i \in DOMAIN entities :
        /\ native_value(entities[i]) # None
        /\ native_value(entities[i]) = value_fn(entities[i].key, entities[i].device)

\* C16: each entity's availability is the coordinator's last_update_success, its
\* device present or not, and no step takes an entity away.
C16_AvailabilityFollowsCoordinator ==
    /\ [](\A i \in DOMAIN entities : available(entities[i]) = last_update_success)
    /\ [][\A i \in DOMAIN entities :
            i \in DOMAIN entities' /\ entities'[i] = entities[i]]_vars

\* an entity whose device has left the snapshot, after a successful cycle
C16_Witness ==
    /\ sensors_setup
    /\ pc = "idle"
    /\ last_update_success
    /\ \E i \in DOMAIN entities :
          /\ Absent(entities[i])
          /\ native_value(entities[i]) = None
          /\ available(entities[i])

----------------------------------------------------------------------------
(* Properties of the setup wizard *)

\* a step that is a call of the wizard
WizardStep == flow' # flow

\* C19: no call of the wizard, whatever its outcome, changes the retry count or the
\* last login time of the coordinator's client, and the coordinator's first
\* ensure_logged_in() finds both at their initial values and is not rate limited.
C19_WizardLeavesCoordinatorClient ==
    /\ [][WizardStep => UNCHANGED <<login_retry_count, last_login_time>>]_vars
    /\ []((entry_state = "setup" /\ pc = "login")
             => /\ login_retry_count = 0
                /\ last_login_time = 0
                /\ ~rate_limited(login_retry_count, last_login_time, now))

\* the wizard's login has failed (its own client counts 1 failure) and the
\* coordinator starts its first login
C19_Witness ==
    /\ flow.called
    /\ flow.fn = "_validate_api_connection"
    /\ flow.result.kind = "InvalidAuth"
    /\ flow.result.client.count = 1
    /\ entry_state = "setup"
    /\ pc = "login"
    /\ login_retry_count = 0

\* the vendor accepts the login and returns at least one home
VendorAccepts(v) ==
    v.login = NoExc /\ v.homes_err = NoExc /\ get_homes(v.acct) # <<>>

\* C20 as stated: validate returns a title only when the login succeeds and a home
\* is returned, otherwise it raises one of InvalidAuth, InvalidAreaCode (no homes)
\* and CannotConnect; the wizard given well-formed input that the vendor accepts
\* creates the config entry.
C20_ValidateThenCreateEntry ==
    /\ (flow.called /\ flow.fn = "_validate_api_connection")
          => /\ flow.result.kind = "return" <=> VendorAccepts(flow.vendor)
             /\ flow.result.kind \in {"return", "InvalidAuth", "InvalidAreaCode", "CannotConnect"}
             /\ (flow.vendor.login = NoExc /\ flow.vendor.homes_err = NoExc
                 /\ get_homes(flow.vendor.acct) = <<>>)
                   => flow.result.kind = "InvalidAreaCode"
             /\ (flow.vendor.login # NoExc /\ login_error(flow.vendor.login).text = InvalidCredentials)
                   => flow.result.kind = "InvalidAuth"
    /\ (/\ flow.called
        /\ flow.fn = "async_step_user"
        /\ flow.data.given
        /\ validate_input_format(flow.data) = {}
        /\ VendorAccepts(flow.vendor))
          => flow.result.type = "create_entry"

----------------------------------------------------------------------------
(* Properties of the diagnostics *)

\* C18 as stated: two configurations that differ in the e-mail, the password or
\* the area code only give, on the same snapshot, the same diagnostics output.
C18_DiagnosticsIndependentOfCredentials ==
    diag.asked => diag.out_a = diag.out_b

----------------------------------------------------------------------------
(* Properties of the order of the calls and of the login errors *)

\* the positions of the data calls: homes list, hub list, hub status
DataCalls == {"homes", "hubs", "status"}

ConnectionTimeout == <<"Connection", "timeout">>

\* C22: the data calls of a cycle begin only after ensure_logged_in() returned, and
\* a cycle whose ensure_logged_in() raised ends there, with that error, having made
\* no data call.
C22_LoginBeforeData ==
    /\ [][(pc \notin DataCalls /\ pc' \in DataCalls)
             => (pc = "login" /\ pc' = "homes" /\ login_called' /\ login_err' = NoExc)]_vars
    /\ [][(LoginCall /\ (~login_called' \/ login_err' # NoExc))
             => (/\ pc' = "idle"
                 /\ CycleFails
                 /\ IF login_called' THEN raised' = login_error(login_err')
                    ELSE raised'.text = TooMany
                 /\ UNCHANGED <<homes, devices, hheap, dheap, data>>)]_vars

C22_Witness ==
    /\ pc = "idle"
    /\ ~last_update_success
    /\ login_called
    /\ login_err # NoExc
    /\ raised = login_error(login_err)
    /\ data.set
    /\ homes = data.homes

\* what C23 says of a failed vendor login that raised err: the error raised
Classified(err) ==
    IF is_authentication_error(Lower(err.text)) THEN HomgarApiException(InvalidCredentials)
    ELSE IF is_connection_error(Lower(err.text)) THEN HomgarApiException(ConnectionTimeout)
    ELSE err

C24_BadHomeIdSkipped ==
    [][(pc = "hubs" /\ invalid_hid(hheap[homes][hi]) /\ (pc' # pc \/ hi' # hi))
          => (/\ ~CycleFails
              /\ raised' = raised
              /\ dheap'[devices'] = dheap[devices]
              /\ homes' = homes /\ hheap'[homes'] = hheap[homes]
              /\ hi' = hi + 1
              /\ pc' = (IF hi < Len(hheap[homes]) THEN "hubs" ELSE "done"))]_vars

\* two homes without a usable id, then home B with its hub: the cycle has succeeded
\* with the devices of B
C24_Witness ==
    /\ pc = "idle"
    /\ last_update_success
    /\ data.set
    /\ Content(data).homes = <<Home("", TRUE), Home("7", FALSE), Home("B", TRUE)>>
    /\ Content(data).devices = <<Hub3, Sub(3, 1)>>

\* the step is a get_homes() call that returned
GetHomesReturns == pc = "homes" /\ pc' \notin {"homes", "idle"}

\* C25: when the vendor returns None or no home after a successful login, no further
\* vendor call is made and the cycle succeeds, publishing a snapshot without homes
\* and devices in the place of the one before.
C25_NoHomesPublished ==
    /\ [][(GetHomesReturns /\ (vendor'.homes_none \/ vendor'.homes = <<>>))
             => (pc' = "done" /\ hheap'[homes'] = <<>> /\ dheap'[devices'] = <<>>)]_vars
    /\ [][(pc = "done" /\ pc' # "done" /\ hheap[homes] = <<>>)
             => (/\ pc' = "idle"
                 /\ last_update_success'
                 /\ data'.set
                 /\ Content(data)'.homes = <<>>
                 /\ Content(data)'.devices = <<>>)]_vars

\* the vendor returned None while a snapshot with devices is published
C25_Witness ==
    /\ pc = "done"
    /\ vendor.homes_none
    /\ hheap[homes] = <<>>
    /\ data.set
    /\ Len(Content(data).devices) > 0

C27_RejectedCallChangesNothing ==
    [][(LoginCall /\ ~login_called')
          => (/\ raised'.text = TooMany
              /\ UNCHANGED <<login_retry_count, last_login_time>>)]_vars

\* a call rejected some time after the third failure
C27_Witness ==
    /\ pc = "idle"
    /\ ~login_called
    /\ raised.text = TooMany
    /\ login_retry_count = MAX_LOGIN_RETRIES
    /\ ThreeFailures
    /\ last_login_time = LastFailure
    /\ now > last_login_time

\* C28 as stated: failureCount is between 0 and 3, is 0 after a successful login,
\* goes up by exactly one on each failed login attempt, and no login is attempted
\* while it is 3 inside the cooldown.
C28_AsStated ==
    /\ [](login_retry_count \in 0..MAX_LOGIN_RETRIES)
    /\ [][(LoginCall /\ pc' = "homes") => login_retry_count' = 0]_vars
    /\ [][(LoginCall /\ login_called' /\ login_err' # NoExc)
             => login_retry_count' = login_retry_count + 1]_vars
    /\ [][(LoginCall /\ login_retry_count = MAX_LOGIN_RETRIES
           /\ now - last_login_time < LOGIN_RETRY_TIMEOUT) => ~login_called']_vars

\* C28 amended: the same, except that a failed attempt made with failureCount 3
\* after the cooldown leaves it at 1.
C28_CountBounded ==
    /\ [](login_retry_count \in 0..MAX_LOGIN_RETRIES)
    /\ [][(LoginCall /\ pc' = "homes") => login_retry_count' = 0]_vars
    /\ [][(LoginCall /\ login_called' /\ login_err' # NoExc)
             => login_retry_count' =
                   (IF login_retry_count = MAX_LOGIN_RETRIES THEN 1
                    ELSE login_retry_count + 1)]_vars
    /\ [][(LoginCall /\ login_retry_count = MAX_LOGIN_RETRIES
           /\ now - last_login_time < LOGIN_RETRY_TIMEOUT) => ~login_called']_vars

\* the count has reached 3 and a call is about to be made inside the cooldown
C28_Witness ==
    /\ pc = "login"
    /\ login_retry_count = MAX_LOGIN_RETRIES
    /\ now - last_login_time < LOGIN_RETRY_TIMEOUT
    /\ now > last_login_time

\* C29: a call rejected by the rate limit comes less than 300 s after an earlier
\* call on the same client, the last failed one; so calls that are always 300 s or
\* more apart are never rejected.
C29_RejectedOnlyWithinPeriod ==
    [][(LoginCall /\ ~login_called')
          => (/\ fail_times # <<>>
              /\ now - LastFailure < LOGIN_RETRY_TIMEOUT)]_vars

\* three failed calls and a fourth, exactly 300 s after the third, that reached the
\* vendor login
C29_Witness ==
    /\ login_called
    /\ ThreeFailures
    /\ login_retry_count = 1
    /\ fail_times[3] - fail_times[2] = LOGIN_RETRY_TIMEOUT
    /\ now = fail_times[3]

----------------------------------------------------------------------------
(* Properties of the conversion helpers *)

Abs(x) == IF x < 0 THEN 0 - x ELSE x

\* max(low, min(high, x))
Clamp(x, low, high) == Max(low, Min(high, x))

\* C21 as stated: the conversion gives the raw value in degrees Celsius rounded to 1
\* decimal, in the sensor and in the diagnostics, and 21.0 for the raw value 295150.
C21_AsStated ==
    (calc.fn \in {"sensor_temperature", "diagnostics_temperature"} /\ calc.arg.some)
        => /\ calc.out.some
           /\ Abs(100 * calc.out.val - (calc.arg.val - ZeroCelsius)) <= 50
           /\ calc.arg.val = 295150 => calc.out.val = 210

\* C21 amended: the sensor gives raw/1000 - 273.15 rounded to 1 decimal for every
\* raw value but 0, for which it gives None; 22.0 for 295150 and 21.0 for 294150.
\* The diagnostics round to 2 decimals, 0 included.
C21_TemperatureRounded ==
    /\ (calc.fn = "sensor_temperature" /\ calc.arg.some /\ calc.arg.val # 0)
          => /\ calc.out.some
             /\ Abs(100 * calc.out.val - (calc.arg.val - ZeroCelsius)) <= 50
             /\ calc.arg.val = 295150 => calc.out.val = 220
             /\ calc.arg.val = 294150 => calc.out.val = 210
    /\ (calc.fn = "sensor_temperature" /\ (~calc.arg.some \/ calc.arg.val = 0))
          => calc.out = None
    /\ (calc.fn = "diagnostics_temperature" /\ calc.arg.some)
          => /\ calc.out.some
             /\ Abs(10 * calc.out.val - (calc.arg.val - ZeroCelsius)) <= 5
    /\ (calc.fn = "diagnostics_temperature" /\ ~calc.arg.some) => calc.out = None

C21_Witness ==
    /\ calc.fn = "sensor_temperature"
    /\ calc.arg = Some(295150)
    /\ calc.out = Some(220)

\* C30 as stated: the delay is clamp(2^attempt, 1, 60) times the jitter, and is
\* neither below 1 s nor above 60 s (in milliseconds).
C30_AsStated ==
    calc.fn = "calculate_backoff_delay"
        => /\ calc.out.val = Clamp(2 ^ calc.arg.val, MIN_BACKOFF_DELAY, MAX_BACKOFF_DELAY) * calc.jitter
           /\ calc.out.val >= MIN_BACKOFF_DELAY * 1000
           /\ calc.out.val <= MAX_BACKOFF_DELAY * 1000

\* C30 amended: the delay is clamp(2^attempt, 1, 60) times the jitter, raised to 1 s
\* when that product is less; it is neither below 1 s nor above half of 60 s.
C30_BackoffFloored ==
    calc.fn = "calculate_backoff_delay"
        => /\ calc.out.val =
                 Max(MIN_BACKOFF_DELAY * 1000,
                     Clamp(2 ^ calc.arg.val, MIN_BACKOFF_DELAY, MAX_BACKOFF_DELAY) * calc.jitter)
           /\ calc.out.val >= MIN_BACKOFF_DELAY * 1000
           /\ 2 * calc.out.val <= MAX_BACKOFF_DELAY * 1000

\* attempt 0 with the smallest jitter: the product is 0.1 s, the delay 1 s
C30_Witness ==
    /\ calc.fn = "calculate_backoff_delay"
    /\ calc.arg = Some(0)
    /\ calc.jitter = 100
    /\ calc.out = Some(1000)

====
